---- MODULE Spec2Model ----
(***************************************************************************)
(* Model of the batch ingestion pipeline: DataCleaner (data_cleaner.py)    *)
(* and BatchLoader (batch_loader.py).                                      *)
(*                                                                         *)
(* A CSV file is a sequence of lines, the first being the header. A data   *)
(* line carries the two key cells ts and device (either may be missing,    *)
(* which pandas reads as NaN) and a payload cell v that is unique per      *)
(* line. Files are well formed: no blank lines, every line has all cells.  *)
(***************************************************************************)
EXTENDS Integers, Sequences, FiniteSets, TLC

\* ---------------------------------------------------------------- bounds
MaxRows == 2        \* data rows of a file
MaxBatch == 2       \* configured batch_size ranges over 1..MaxBatch
MaxCalls == 2       \* ingestion calls made on one BatchLoader
MaxTick == 1        \* datetime.now() ranges over 0..MaxTick
MaxThreads == 2     \* concurrent load_csv_chunk calls (SpecConc)

\* ---------------------------------------------------------------- values
NaN == "NaN"
\* The key cells of a data row: three complete keys, and one key for each way
\* of lacking a cell.
Keys ==
    {[ts |-> t, device |-> "A"] : t \in {"t1", "t2", "t3"}}
        \cup {[ts |-> NaN, device |-> "A"],
              [ts |-> "t1", device |-> NaN],
              [ts |-> NaN, device |-> NaN]}

Header == [ts |-> "ts", device |-> "device", v |-> 0]

RECURSIVE SeqsUpTo(_, _)
SeqsUpTo(S, n) ==
    IF n = 0 THEN {<<>>}
    ELSE LET shorter == SeqsUpTo(S, n - 1)
         IN  shorter \cup {Append(s, x) : s \in {t \in shorter : Len(t) = n - 1}, x \in S}

\* The lines of the file whose data rows have the keys ks: header first.
FileOf(ks) ==
    <<Header>> \o [j \in 1..Len(ks) |-> [ts |-> ks[j].ts, device |-> ks[j].device, v |-> j]]

Files == {FileOf(ks) : ks \in SeqsUpTo(Keys, MaxRows)}

RowArgs == 0..(MaxRows + 1)

None == [prefix |-> "None", stamp |-> 0]
GivenBatchIds == {[prefix |-> "batch_", stamp |-> 1]}

\* The successive readings of datetime.now() during one call: n readings,
\* none earlier than the one before.
Ticks(n) == {t \in [1..n -> 0..MaxTick] : \A a, b \in 1..n : a <= b => t[a] <= t[b]}

Min(a, b) == IF a <= b THEN a ELSE b

RECURSIVE SumSeq(_)
SumSeq(s) == IF s = <<>> THEN 0 ELSE Head(s) + SumSeq(Tail(s))

RECURSIVE Flatten(_)
Flatten(ss) == IF ss = <<>> THEN <<>> ELSE Head(ss) \o Flatten(Tail(ss))

\* The elements of s at the positions in P, in order.
RECURSIVE SelectFrom(_, _, _)
SelectFrom(s, P, p) ==
    IF p > Len(s) THEN <<>>
    ELSE (IF p \in P THEN <<s[p]>> ELSE <<>>) \o SelectFrom(s, P, p + 1)

SelectPos(s, P) == SelectFrom(s, P, 1)

\* ---------------------------------------------------------------- pandas
\* range(1, start_row) in place of range(1, start_row + 1): one row too few
\* is skipped.
SkipRows_short(start_row) == 1..(start_row - 1)

\* skiprows=range(1, start_row + 1): 0-based file line numbers to skip.
SkipRows(start_row) == 1..start_row

\* pd.read_csv(filepath, skiprows=..., nrows=nrows): the lines not skipped;
\* the first of them is the header, the next nrows are the data.
read_csv_chunk(file, start_row, nrows) ==
    LET kept == SelectPos(file, {p \in 1..Len(file) : (p - 1) \notin SkipRows(start_row)})
        data == IF kept = <<>> THEN <<>> ELSE Tail(kept)
    IN  SubSeq(data, 1, Min(nrows, Len(data)))

\* pd.read_csv(filepath): every line after the header.
read_csv_full(file) == Tail(file)

\* df.drop_duplicates(subset=['ts','device'], keep='first'): a row is dropped
\* when an earlier row has the same two cells (NaN equals NaN here).
drop_duplicates(df) ==
    SelectPos(df, {p \in 1..Len(df) : ~ \E q \in 1..(p - 1) :
                                           df[q].ts = df[p].ts /\ df[q].device = df[p].device})

\* df.dropna(subset=['ts','device']): a row is dropped when either cell is NaN.
dropna(df) ==
    SelectPos(df, {p \in 1..Len(df) : df[p].ts # NaN /\ df[p].device # NaN})

\* ---------------------------------------------------------------- DataCleaner
ZeroStats == [duplicates_removed |-> 0, missing_values_dropped |-> 0]

remove_duplicates(stats, df) ==
    LET before == Len(df)
        out == drop_duplicates(df)
    IN  [df |-> out,
         stats |-> [stats EXCEPT !.duplicates_removed = @ + (before - Len(out))]]

\* The missing cells are counted in place of the rows dropped.
handle_missing_values_cells(stats, df) ==
    LET out == dropna(df)
        cells == SumSeq([p \in 1..Len(df) |->
                     (IF df[p].ts = NaN THEN 1 ELSE 0)
                       + (IF df[p].device = NaN THEN 1 ELSE 0)])
    IN  [df |-> out,
         stats |-> [stats EXCEPT !.missing_values_dropped = @ + cells]]

handle_missing_values(stats, df) ==
    LET before == Len(df)
        out == dropna(df)
    IN  [df |-> out,
         stats |-> [stats EXCEPT !.missing_values_dropped = @ + (before - Len(out))]]

cleanse(stats, df) ==
    LET a == remove_duplicates(stats, df)
    IN  handle_missing_values(a.stats, a.df)

\* ---------------------------------------------------------------- store
\* collection.insert_many(batch, ordered=False) when the store rejects k of the
\* documents: with none rejected it returns a result listing every inserted id,
\* otherwise it raises BulkWriteError whose details count the documents that
\* were committed all the same.
insert_many(batch, k) ==
    IF k = 0
    THEN [raised |-> FALSE, inserted_ids |-> Len(batch)]
    ELSE [raised |-> TRUE,
          details |-> [nInserted |-> Len(batch) - k, writeErrors |-> k]]

\* ---------------------------------------------------------------- BatchLoader
\* df['_metadata'] = df.apply(lambda _: {...}, axis=1): the lambda runs once
\* per row, and each run reads datetime.now() anew (ticks[j] for row j).
annotate_chunk(df, ticks, batch_id, start_row, end_row) ==
    [j \in 1..Len(df) |->
        [ts |-> df[j].ts, device |-> df[j].device, v |-> df[j].v,
         metadata |-> [ingested_at |-> ticks[j],
                       batch_id |-> batch_id,
                       source_rows |-> <<start_row, end_row>>]]]

annotate_full(df, ticks, batch_id) ==
    [j \in 1..Len(df) |->
        [ts |-> df[j].ts, device |-> df[j].device, v |-> df[j].v,
         metadata |-> [ingested_at |-> ticks[j], batch_id |-> batch_id]]]

\* batch_id or f"full_{datetime.now().strftime(...)}"
full_batch_id(batch_id, now) ==
    IF batch_id = None THEN [prefix |-> "full_", stamp |-> now] ELSE batch_id

\* records[i:i + self.batch_size] (i is the 0-based loop index)
batch_slice(recs, i0, size) == SubSeq(recs, i0 + 1, Min(i0 + size, Len(recs)))

\* The loop index steps one too far: a record between two slices is left out.
next_index_skip(i0, size) == i0 + size + 1

\* the next value of range(0, len(records), self.batch_size)
next_index(i0, size) == i0 + size

\* A failed bulk write is taken to have inserted nothing.
on_bulk_write_error_zero(count, details) == count

\* except BulkWriteError as e: inserted_count += e.details.get('nInserted', 0)
on_bulk_write_error(count, details) == count + details.nInserted

\* the try/except around insert_many: the new value of inserted_count
count_inserted(count, outcome) ==
    IF outcome.raised
    THEN on_bulk_write_error(count, outcome.details)
    ELSE count + outcome.inserted_ids

\* The live dict is handed out in place of a copy.
stats_alias(h) == [heap |-> h, ref |-> 1]

\* self.cleaner.stats.copy(): a new dict object holding the live dict's
\* entries. heap[1] is the live dict self.cleaner.stats.
stats_copy(h) == [heap |-> Append(h, h[1]), ref |-> Len(h) + 1]

\* ---------------------------------------------------------------- state
VARIABLES
    file,            \* the lines of the CSV file at filepath
    batch_size,      \* self.batch_size
    heap,            \* the stats dict objects: heap[1] is self.cleaner.stats
    pc,              \* "idle", "chunk_read", "chunk_write", "full_write", "done"
    call,            \* the arguments of the call in progress
    df_read,         \* df as read_csv returned it
    records,         \* df.to_dict('records') after cleansing and annotation
    i,               \* the write loop's index
    inserted_count,
    writes,          \* the insert_many calls of the call in progress, in order
    result,          \* what the last call gave its caller
    snapshots,       \* the cleansing_stats objects handed out so far
    dropped,         \* rows dropped so far, counted from the inputs
    ncalls,
    threads          \* concurrent load_csv_chunk calls (SpecConc only)

vars == <<file, batch_size, heap, pc, call, df_read, records, i, inserted_count,
          writes, result, snapshots, dropped, ncalls, threads>>

NoResult == [kind |-> "none"]
NoCall == [op |-> "none"]

\* Rows of df that repeat the key of an earlier row.
DuplicateRows(df) ==
    {p \in 1..Len(df) : \E q \in 1..(p - 1) :
        df[q].ts = df[p].ts /\ df[q].device = df[p].device}

\* Rows of df that are no duplicate and lack ts or device.
MissingRows(df) ==
    {p \in 1..Len(df) \ DuplicateRows(df) : df[p].ts = NaN \/ df[p].device = NaN}

AddDropped(d, df) ==
    [duplicates_removed |-> d.duplicates_removed + Cardinality(DuplicateRows(df)),
     missing_values_dropped |-> d.missing_values_dropped + Cardinality(MissingRows(df))]

Init ==
    /\ file \in Files
    /\ batch_size \in 1..MaxBatch
    /\ heap = <<ZeroStats>>
    /\ pc = "idle"
    /\ call = NoCall
    /\ df_read = <<>>
    /\ records = <<>>
    /\ i = 0
    /\ inserted_count = 0
    /\ writes = <<>>
    /\ result = NoResult
    /\ snapshots = <<>>
    /\ dropped = ZeroStats
    /\ ncalls = 0
    /\ threads = <<>>

\* The caller enters load_csv_chunk with its arguments (line 48).
load_csv_chunk(start_row, end_row, batch_id) ==
    /\ pc = "idle"
    /\ ncalls < MaxCalls
    /\ ncalls' = ncalls + 1
    /\ call' = [op |-> "chunk", start_row |-> start_row, end_row |-> end_row,
                batch_id |-> batch_id]
    /\ pc' = "chunk_read"
    /\ UNCHANGED <<file, batch_size, heap, df_read, records, i, inserted_count,
                   writes, result, snapshots, dropped, threads>>

\* The locals of a call that has ended.
EndCall ==
    /\ call' = NoCall
    /\ df_read' = <<>>
    /\ records' = <<>>
    /\ i' = 0
    /\ inserted_count' = 0
    /\ writes' = <<>>
    /\ pc' = "done"

\* The caller has the call's outcome (line 152): the loader is idle again.
TakeResult ==
    /\ pc = "done"
    /\ pc' = "idle"
    /\ result' = NoResult
    /\ UNCHANGED <<file, batch_size, heap, call, df_read, records, i,
                   inserted_count, writes, snapshots, dropped, ncalls, threads>>

\* Lines 50-64: read, cleanse, annotate. A negative nrows makes read_csv raise
\* ValueError, which nothing catches.
ChunkRead ==
    LET nrows == call.end_row - call.start_row IN
    /\ pc = "chunk_read"
    /\ UNCHANGED <<file, batch_size, snapshots, ncalls, threads>>
    /\ IF nrows < 0
       THEN /\ result' = [kind |-> "raised", exc |-> "ValueError"]
            /\ EndCall
            /\ UNCHANGED <<heap, dropped>>
       ELSE LET df == read_csv_chunk(file, call.start_row, nrows)
                c == cleanse(heap[1], df)
            IN  /\ df_read' = df
                /\ heap' = [heap EXCEPT ![1] = c.stats]
                /\ dropped' = AddDropped(dropped, df)
                /\ \E ticks \in Ticks(Len(c.df)) :
                       records' = annotate_chunk(c.df, ticks, call.batch_id,
                                                 call.start_row, call.end_row)
                /\ i' = 0
                /\ inserted_count' = 0
                /\ writes' = <<>>
                /\ pc' = "chunk_write"
                /\ UNCHANGED <<call, result>>

\* load_full_csv up to the write loop (lines 87-105).
load_full_csv(batch_id) ==
    LET df == read_csv_full(file)
        c == cleanse(heap[1], df)
    IN  /\ pc = "idle"
        /\ ncalls < MaxCalls
        /\ ncalls' = ncalls + 1
        /\ df_read' = df
        /\ heap' = [heap EXCEPT ![1] = c.stats]
        /\ dropped' = AddDropped(dropped, df)
        /\ \E now \in 0..MaxTick, ticks \in Ticks(Len(c.df)) :
               /\ \A j \in 1..Len(c.df) : now <= ticks[j]
               /\ call' = [op |-> "full", batch_id |-> full_batch_id(batch_id, now)]
               /\ records' = annotate_full(c.df, ticks, full_batch_id(batch_id, now))
        /\ i' = 0
        /\ inserted_count' = 0
        /\ writes' = <<>>
        /\ pc' = "full_write"
        /\ UNCHANGED <<file, batch_size, result, snapshots, threads>>

\* One pass of the write loop: the store rejects k documents of the batch.
WriteBatch(k) ==
    LET batch == batch_slice(records, i, batch_size)
        outcome == insert_many(batch, k)
        count == count_inserted(inserted_count, outcome)
    IN  /\ i < Len(records)
        /\ k <= Len(batch)
        /\ inserted_count' = count
        /\ writes' = Append(writes, [docs |-> batch,
                                     rejected |-> k,
                                     raised |-> outcome.raised])
        /\ i' = next_index(i, batch_size)
        /\ UNCHANGED <<file, batch_size, heap, pc, call, df_read, records, result,
                       snapshots, dropped, ncalls, threads>>

\* lines 66-73
ChunkInsertMany(k) == pc = "chunk_write" /\ WriteBatch(k)

\* lines 107-115
FullInsertMany(k) == pc = "full_write" /\ WriteBatch(k)

\* insert_many fails with an exception that is no BulkWriteError (the store
\* cannot be reached): nothing catches it and the call ends with it.
InsertManyFatal ==
    /\ pc \in {"chunk_write", "full_write"}
    /\ i < Len(records)
    /\ result' = [kind |-> "raised", exc |-> "ConnectionFailure"]
    /\ EndCall
    /\ UNCHANGED <<file, batch_size, heap, snapshots, dropped, ncalls, threads>>

\* lines 75-84: the loop is over, the statistics are built and returned.
ChunkReturn ==
    LET c == stats_copy(heap) IN
    /\ pc = "chunk_write"
    /\ i >= Len(records)
    /\ heap' = c.heap
    /\ result' = [kind |-> "stats",
                  stats |-> [rows_read |-> call.end_row - call.start_row,
                             rows_after_cleansing |-> Len(records),
                             rows_inserted |-> inserted_count,
                             cleansing_stats |-> c.ref,
                             batch_id |-> call.batch_id]]
    /\ snapshots' = Append(snapshots, [ref |-> c.ref, dropped |-> dropped])
    /\ EndCall
    /\ UNCHANGED <<file, batch_size, dropped, ncalls, threads>>

\* lines 117-126
FullReturn ==
    LET c == stats_copy(heap) IN
    /\ pc = "full_write"
    /\ i >= Len(records)
    /\ heap' = c.heap
    /\ result' = [kind |-> "stats",
                  stats |-> [total_rows_read |-> Len(df_read),
                             rows_after_cleansing |-> Len(records),
                             rows_inserted |-> inserted_count,
                             cleansing_stats |-> c.ref,
                             batch_id |-> call.batch_id]]
    /\ snapshots' = Append(snapshots, [ref |-> c.ref, dropped |-> dropped])
    /\ EndCall
    /\ UNCHANGED <<file, batch_size, dropped, ncalls, threads>>

Next ==
    \/ \E start_row \in RowArgs, end_row \in RowArgs, batch_id \in GivenBatchIds :
           load_csv_chunk(start_row, end_row, batch_id)
    \/ ChunkRead
    \/ \E batch_id \in GivenBatchIds \cup {None} : load_full_csv(batch_id)
    \/ \E k \in 0..MaxBatch : ChunkInsertMany(k)
    \/ \E k \in 0..MaxBatch : FullInsertMany(k)
    \/ InsertManyFatal
    \/ ChunkReturn
    \/ FullReturn
    \/ TakeResult

Spec == Init /\ [][Next]_vars

\* ---------------------------------------------------------------- threads
\* Two or more load_csv_chunk calls running at once on one BatchLoader, and so
\* on one DataCleaner. A thread may be switched out between any two bytecodes:
\* "self.stats[key] += n" reads the entry, computes the sum and stores it, and
\* another thread may run between the read and the store.
ThreadIds == 1..MaxThreads

NewThread == [pc |-> "start", df |-> <<>>, old |-> 0, dups |-> 0, miss |-> 0]

InitConc ==
    /\ file \in Files
    /\ batch_size \in 1..MaxBatch
    /\ heap = <<ZeroStats>>
    /\ pc = "idle"
    /\ call = NoCall
    /\ df_read = <<>>
    /\ records = <<>>
    /\ i = 0
    /\ inserted_count = 0
    /\ writes = <<>>
    /\ result = NoResult
    /\ snapshots = <<>>
    /\ dropped = ZeroStats
    /\ ncalls = 0
    /\ threads = [t \in ThreadIds |-> NewThread]

SeqVars == <<file, batch_size, pc, call, df_read, records, i, inserted_count,
             writes, result, snapshots, dropped, ncalls>>

\* lines 50-55 of batch_loader.py: the thread reads its chunk and enters cleanse.
T_Read(t, start_row, end_row) ==
    /\ threads[t].pc = "start"
    /\ start_row <= end_row
    /\ threads' = [threads EXCEPT
                     ![t].df = read_csv_chunk(file, start_row, end_row - start_row),
                     ![t].pc = "dup_load"]
    /\ UNCHANGED <<heap, SeqVars>>

\* _remove_duplicates, lines 30-32 up to the read of the counter.
T_DupLoad(t) ==
    LET out == drop_duplicates(threads[t].df) IN
    /\ threads[t].pc = "dup_load"
    /\ threads' = [threads EXCEPT
                     ![t].old = heap[1].duplicates_removed,
                     ![t].dups = Len(threads[t].df) - Len(out),
                     ![t].df = out,
                     ![t].pc = "dup_store"]
    /\ UNCHANGED <<heap, SeqVars>>

\* _remove_duplicates, line 32: the store of the sum.
T_DupStore(t) ==
    /\ threads[t].pc = "dup_store"
    /\ heap' = [heap EXCEPT ![1].duplicates_removed = threads[t].old + threads[t].dups]
    /\ threads' = [threads EXCEPT ![t].pc = "miss_load"]
    /\ UNCHANGED SeqVars

\* _handle_missing_values, lines 36-38 up to the read of the counter.
T_MissLoad(t) ==
    LET out == dropna(threads[t].df) IN
    /\ threads[t].pc = "miss_load"
    /\ threads' = [threads EXCEPT
                     ![t].old = heap[1].missing_values_dropped,
                     ![t].miss = Len(threads[t].df) - Len(out),
                     ![t].df = out,
                     ![t].pc = "miss_store"]
    /\ UNCHANGED <<heap, SeqVars>>

\* _handle_missing_values, line 38: the store of the sum.
T_MissStore(t) ==
    /\ threads[t].pc = "miss_store"
    /\ heap' = [heap EXCEPT ![1].missing_values_dropped = threads[t].old + threads[t].miss]
    /\ threads' = [threads EXCEPT ![t].pc = "done"]
    /\ UNCHANGED SeqVars

NextConc ==
    \/ \E t \in ThreadIds, start_row \in RowArgs, end_row \in RowArgs :
           T_Read(t, start_row, end_row)
    \/ \E t \in ThreadIds : T_DupLoad(t)
    \/ \E t \in ThreadIds : T_DupStore(t)
    \/ \E t \in ThreadIds : T_MissLoad(t)
    \/ \E t \in ThreadIds : T_MissStore(t)

SpecConc == InitConc /\ [][NextConc]_vars

\* ---------------------------------------------------------------- claims
Writing == pc \in {"chunk_write", "full_write"}

Submitted == Flatten([j \in 1..Len(writes) |-> writes[j].docs])

Committed == SumSeq([j \in 1..Len(writes) |-> Len(writes[j].docs) - writes[j].rejected])

Total(stats) == stats.duplicates_removed + stats.missing_values_dropped

\* C1: every record handed to the store in one call carries the same batch_id
\* and the same ingested_at.
C1_ProvenanceShared ==
    Writing =>
        \A a, b \in 1..Len(records) :
            /\ records[a].metadata.batch_id = records[b].metadata.batch_id
            /\ records[a].metadata.ingested_at = records[b].metadata.ingested_at

\* C2: every statistics value returned has a rows_read entry and satisfies
\* rows_inserted <= rows_after_cleansing <= rows_read.
C2_StatsOrdered ==
    result.kind = "stats" =>
        /\ "rows_read" \in DOMAIN result.stats
        /\ result.stats.rows_inserted <= result.stats.rows_after_cleansing
        /\ result.stats.rows_after_cleansing <= result.stats.rows_read

\* C3: a sub-batch of n documents of which the store rejects k adds exactly
\* n - k to inserted_count, the call goes on with the loop instead of ending,
\* and the rows_inserted returned is the number of documents the store
\* committed over all sub-batches, every record having been submitted.
C3_Step ==
    /\ (Writing /\ Len(writes') = Len(writes) + 1) =>
           LET w == writes'[Len(writes')] IN
           /\ inserted_count' = inserted_count + Len(w.docs) - w.rejected
           /\ pc' = pc
           /\ result' = result
    /\ (Writing /\ pc' = "done" /\ result'.kind = "stats") =>
           /\ result'.stats.rows_inserted = Committed
           /\ Submitted = records

C3_PartialWriteTolerated == [][C3_Step]_vars

\* a sub-batch with rejected documents was followed by another sub-batch, and
\* the loop is over
C3_Witness ==
    /\ Writing
    /\ i >= Len(records)
    /\ Len(writes) >= 2
    /\ writes[1].raised
    /\ writes[1].rejected >= 1
    /\ writes[1].rejected < Len(writes[1].docs) \/ batch_size = 1
    /\ inserted_count < Len(records)

\* C4: one cleanse call returns no more rows than it was given, and the two
\* counters together grow by exactly the number of rows dropped, neither of
\* them shrinking.
C4_Step ==
    (pc \in {"idle", "chunk_read"} /\ pc' \in {"chunk_write", "full_write"}) =>
        /\ Len(records') <= Len(df_read')
        /\ Total(heap'[1]) - Total(heap[1]) = Len(df_read') - Len(records')
        /\ heap'[1].duplicates_removed >= heap[1].duplicates_removed
        /\ heap'[1].missing_values_dropped >= heap[1].missing_values_dropped

C4_CleanseAccounting == [][C4_Step]_vars

\* cleanse has dropped a row that is both a duplicate and lacks a key cell
C4_Witness ==
    /\ Writing
    /\ \E p \in DuplicateRows(df_read) : df_read[p].ts = NaN \/ df_read[p].device = NaN
    /\ Len(records) < Len(df_read)

\* C5: a chunk call with start_row >= end_row reads an empty batch and is no
\* error: it returns statistics with rows_after_cleansing = 0 and
\* rows_inserted = 0.
C5_Step ==
    /\ (pc = "chunk_read" /\ call.start_row >= call.end_row) =>
           (pc' = "chunk_write" /\ df_read' = <<>> /\ records' = <<>>)
    /\ (pc = "chunk_write" /\ call.start_row >= call.end_row /\ pc' = "done") =>
           /\ result'.kind = "stats"
           /\ result'.stats.rows_after_cleansing = 0
           /\ result'.stats.rows_inserted = 0

C5_EmptyRangeNoError == [][C5_Step]_vars

\* C6: for start <= end and a file of N data rows, the chunk read returns the
\* data rows with index in [start, end) and below N, in file order, and never
\* the header row.
DataRows(f) == Len(f) - 1

RowsInRange(f, start_row, end_row) ==
    LET lo == Min(start_row, DataRows(f))
        hi == Min(end_row, DataRows(f))
    IN  [j \in 1..(hi - lo) |-> f[1 + lo + j]]

C7_Step ==
    (pc = "full_write" /\ pc' = "done" /\ result'.kind = "stats" /\ ncalls = 1) =>
        /\ "rows_read" \in DOMAIN result'.stats
        /\ result'.stats.rows_read = DataRows(file)
        /\ result'.stats.rows_after_cleansing =
               DataRows(file) - Cardinality(DuplicateRows(Tail(file)))
                              - Cardinality(MissingRows(Tail(file)))
        /\ heap'[result'.stats.cleansing_stats] =
               [duplicates_removed |-> Cardinality(DuplicateRows(Tail(file))),
                missing_values_dropped |-> Cardinality(MissingRows(Tail(file)))]

C7_FullStats == [][C7_Step]_vars

\* C8: when every concurrent call has finished, each shared counter is the sum
\* of the drops the calls made.
C8_NoLostUpdate ==
    (\A t \in ThreadIds : threads[t].pc = "done") =>
        /\ heap[1].duplicates_removed = SumSeq([t \in ThreadIds |-> threads[t].dups])
        /\ heap[1].missing_values_dropped = SumSeq([t \in ThreadIds |-> threads[t].miss])

\* C9: the write loop submits the records in consecutive sub-batches of at
\* least one and at most batch_size records, one insert_many per pass and at
\* most one per step, each record exactly once, none left out when the loop
\* is over.
C9_Inv ==
    Writing =>
        /\ \A j \in 1..Len(writes) :
               /\ Len(writes[j].docs) >= 1
               /\ Len(writes[j].docs) <= batch_size
               /\ j < Len(writes) => Len(writes[j].docs) = batch_size
        /\ i = Len(writes) * batch_size
        /\ Submitted = SubSeq(records, 1, Min(i, Len(records)))
        /\ (i >= Len(records)) => Submitted = records

C9_Partition == [][C9_Inv /\ C9_Inv' /\ Len(writes') <= Len(writes) + 1]_vars

\* the loop is over after two sub-batches
C9_Witness ==
    /\ Writing
    /\ i >= Len(records)
    /\ Len(writes) >= 2
    /\ Len(records) >= 2

\* C10: the cleansing_stats a call returns are the running totals of the
\* drops of all calls so far, never negative and never below an earlier
\* call's, and a snapshot handed out keeps its values.
C10_RunningTotals ==
    \A k \in 1..Len(snapshots) :
        /\ heap[snapshots[k].ref] = snapshots[k].dropped
        /\ heap[snapshots[k].ref].duplicates_removed >= 0
        /\ heap[snapshots[k].ref].missing_values_dropped >= 0
        /\ \A l \in 1..(k - 1) :
               /\ heap[snapshots[l].ref].duplicates_removed
                      <= heap[snapshots[k].ref].duplicates_removed
               /\ heap[snapshots[l].ref].missing_values_dropped
                      <= heap[snapshots[k].ref].missing_values_dropped

\* two calls have returned, both having dropped rows of both kinds
C10_Witness ==
    /\ Len(snapshots) >= 2
    /\ heap[snapshots[1].ref].duplicates_removed >= 1
    /\ heap[snapshots[2].ref].duplicates_removed > heap[snapshots[1].ref].duplicates_removed
    /\ heap[snapshots[2].ref].missing_values_dropped >= 1
    /\ heap[1] = heap[snapshots[2].ref]

====
